---- MODULE Spec2Model ----
(***************************************************************************)
(* Model of the AIDataGenerator run (src/agents.py): read the sample CSV,  *)
(* one analysis call, creation of the output file, then the batch loop     *)
(* that asks the model for rows and appends them to the output file.       *)
(*                                                                         *)
(* A Python str is a sequence of one-character strings, a list is a        *)
(* sequence, and an Optional value is None (the empty sequence) or         *)
(* Some(x) (the one-element sequence holding x).  The output file is None  *)
(* while it does not exist and otherwise Some(the sequence of the lines    *)
(* in it, each without its "\r\n" terminator).                             *)
(***************************************************************************)
EXTENDS Integers, Sequences, FiniteSets, TLC

\* ------------------------------------------------------------------ bounds

\* desired_rows ranges over a few small values and over the values around
\* each multiple of batch_size up to MaxBatches * batch_size.
MaxBatches == 1

\* The call counter `calls` stops counting at MaxCalls, which is more calls
\* than a run needs when every reply holds the rows asked for.
MaxCalls == MaxBatches + 2

\* At most MaxFaults times in a run does a reply hold another number of
\* lines than the plain batch, or does a write of the output file fail.
MaxFaults == 1

\* ------------------------------------------------------- program constants

batch_size == 30

\* The number of rows used when the user's input is no number.
default_rows == 30

\* --------------------------------------------------------- Python values

None == <<>>

Some(x) == <<x>>

IsNone(o) == o = None

Get(o) == o[1]

Min(a, b) == IF a < b THEN a ELSE b

NL == "\n"

COMMA == ","

QUOTE == "\""

\* The marker the csv reader feeds its state machine at the end of a line.
EOL == "EOL"

RECURSIVE Join(_, _)
\* sep.join(strs): the strings of strs, with sep between neighbours.
Join(sep, strs) ==
    IF strs = <<>> THEN <<>>
    ELSE IF Len(strs) = 1 THEN strs[1]
    ELSE LET h == Len(strs) \div 2
         IN  Join(sep, SubSeq(strs, 1, h)) \o sep
             \o Join(sep, SubSeq(strs, h + 1, Len(strs)))

\* The positions of the line breaks of text.
Breaks(text) == {i \in 1..Len(text) : text[i] = NL}

RECURSIVE SplitFrom(_, _, _)
\* The lines of text from position i on, brks being the line breaks from
\* there on: a line ends at the next line break; text left after the last
\* break is a last line.
SplitFrom(text, brks, i) ==
    IF i > Len(text) THEN <<>>
    ELSE IF brks = {} THEN <<SubSeq(text, i, Len(text))>>
    ELSE LET b == CHOOSE j \in brks : \A k \in brks : j <= k
         IN  <<SubSeq(text, i, b - 1)>> \o SplitFrom(text, brks \ {b}, b + 1)

\* text.splitlines(): "" gives [], "a\n" gives ["a"], "a\n\n" gives ["a", ""].
splitlines(text) == SplitFrom(text, Breaks(text), 1)

\* ------------------------------------------------------------ csv module

\* The reader's state at the start of a record.
ParseReset == [state |-> "START_RECORD", field |-> <<>>, fields |-> <<>>]

\* parse_save_field: the field read so far becomes the record's next field.
SaveField(p, next) ==
    [state |-> next, field |-> <<>>, fields |-> Append(p.fields, p.field)]

AddChar(p, c, next) == [p EXCEPT !.state = next, !.field = Append(p.field, c)]

\* One step of the reader's state machine (default dialect: delimiter ',',
\* quotechar '"', doublequote, not strict).
ParseChar(p, c) ==
    CASE p.state = "START_RECORD" /\ c = EOL -> p
      [] p.state \in {"START_RECORD", "START_FIELD"} ->
            IF c = EOL THEN SaveField(p, "START_RECORD")
            ELSE IF c = QUOTE THEN [p EXCEPT !.state = "IN_QUOTED_FIELD"]
            ELSE IF c = COMMA THEN SaveField(p, "START_FIELD")
            ELSE AddChar(p, c, "IN_FIELD")
      [] p.state = "IN_FIELD" ->
            IF c = EOL THEN SaveField(p, "START_RECORD")
            ELSE IF c = COMMA THEN SaveField(p, "START_FIELD")
            ELSE AddChar(p, c, "IN_FIELD")
      [] p.state = "IN_QUOTED_FIELD" ->
            IF c = EOL THEN p
            ELSE IF c = QUOTE THEN [p EXCEPT !.state = "QUOTE_IN_QUOTED_FIELD"]
            ELSE AddChar(p, c, "IN_QUOTED_FIELD")
      [] p.state = "QUOTE_IN_QUOTED_FIELD" ->
            IF c = EOL THEN SaveField(p, "START_RECORD")
            ELSE IF c = QUOTE THEN AddChar(p, c, "IN_QUOTED_FIELD")
            ELSE IF c = COMMA THEN SaveField(p, "START_FIELD")
            ELSE AddChar(p, c, "IN_FIELD")

RECURSIVE ParseLine(_, _, _)
\* The reader's state after the characters of line from position i on and
\* the end-of-line marker.
ParseLine(p, line, i) ==
    IF i > Len(line) THEN ParseChar(p, EOL)
    ELSE ParseLine(ParseChar(p, line[i]), line, i + 1)

RECURSIVE ReadRecords(_, _, _)
\* csv.reader over lines from position i on: a record ends with the line
\* that leaves the state machine at START_RECORD; a quoted field still open
\* at the end of a line runs on into the next line; at the end of the input
\* a record in progress is returned as it stands.
ReadRecords(lines, i, p) ==
    IF i > Len(lines)
    THEN (IF p.field /= <<>> \/ p.state = "IN_QUOTED_FIELD"
          THEN <<Append(p.fields, p.field)>>
          ELSE <<>>)
    ELSE LET q == ParseLine(p, lines[i], 1)
         IN  IF q.state = "START_RECORD"
             THEN <<q.fields>> \o ReadRecords(lines, i + 1, ParseReset)
             ELSE ReadRecords(lines, i + 1, q)

\* list(csv.reader(lines))
csv_reader(lines) == ReadRecords(lines, 1, ParseReset)

RECURSIVE DoubleQuotes(_)
DoubleQuotes(s) ==
    IF s = <<>> THEN <<>>
    ELSE (IF s[1] = QUOTE THEN <<QUOTE, QUOTE>> ELSE <<s[1]>>)
         \o DoubleQuotes(Tail(s))

\* A field as csv.writer writes it (QUOTE_MINIMAL): quoted, with its quotes
\* doubled, when it holds a delimiter, a quote or a line break.
WriteField(s) ==
    IF \E k \in 1..Len(s) : s[k] \in {COMMA, QUOTE, NL}
    THEN <<QUOTE>> \o DoubleQuotes(s) \o <<QUOTE>>
    ELSE s

\* The line writer.writerow(row) adds to the file, without its terminator;
\* a row that is one empty field is written as "".
writerow(row) ==
    IF row = <<<<>>>> THEN <<QUOTE, QUOTE>>
    ELSE Join(<<COMMA>>, [j \in 1..Len(row) |-> WriteField(row[j])])

\* The lines the writer adds for rows.
WriteRows(rows) == [j \in 1..Len(rows) |-> writerow(rows[j])]

\* ------------------------------------------------------------- the state

VARIABLES
    pc,                   \* the statement the run is at
    output_file,          \* /app/data/new_dataset.csv: None, or Some(lines)
    desired_rows,         \* agents.py line 208 / 211
    sample_data,          \* line 217: None, or Some(list of rows)
    sample_data_str,      \* line 222
    analysis_result,      \* line 225: None, or Some(text)
    headers,              \* line 236: None, or Some(row)
    generated_rows,       \* line 241
    rows_to_generate,     \* line 245
    prompt,               \* what the last generator_agent call was given
    generated_data,       \* lines 246 and 259: None, or Some(text)
    generated_data_lines, \* lines 256 and 258
    initial_file,         \* the output file when the run began
    analysis_calls,       \* number of analyzer_agent calls made
    calls,                \* number of generator_agent calls made (to MaxCalls)
    exact,                \* every reply so far was the requested data lines
    faults                \* irregular replies and failed writes so far

vars == <<pc, output_file, desired_rows, sample_data, sample_data_str,
          analysis_result, headers, generated_rows, rows_to_generate, prompt,
          generated_data, generated_data_lines, initial_file, analysis_calls,
          calls, exact, faults>>

\* ------------------------------------------------------------ the inputs

HeaderLine == <<"i", COMMA, "v">>

DataLine == <<"1", COMMA, "a">>

\* The sample files read: an empty file, a file whose first line is blank,
\* and a header with one data row.
SampleFiles == { <<>>, <<<<>>, DataLine>>, <<HeaderLine, DataLine>> }

ReadOutcomes ==
    {[kind |-> k] : k \in {"FileNotFoundError", "PermissionError", "csv.Error"}}
    \cup {[kind |-> "ok", lines |-> f] : f \in SampleFiles}

\* What the user types for the number of rows: not a number, or a number.
RowInputs ==
    {None} \cup {Some(n) : n \in {-1, 0, 5}}
    \cup {Some(k * batch_size + 1) : k \in 0..MaxBatches}

\* The output file before the run: absent, or left by an earlier run.
InitialFiles == {None, Some(<<HeaderLine, DataLine>>)}

\* What client.messages.create does: raises, returns a message with no
\* content block, or returns a message whose first block holds text.
ErrorReplies == {[kind |-> k] : k \in {"APIError", "IndexError"}}

TextReplies(texts) == {[kind |-> "text", text |-> t] : t \in texts}

AnalyzerTexts == {<<>>, <<"o", "k">>}

DataText(k) == Join(<<NL>>, [j \in 1..k |-> DataLine])

\* A record whose first field holds a line break, in quotes.
MultiLineRecord == <<QUOTE, "1", NL, QUOTE, COMMA, "a">>

\* The whole set of reply texts to a request for n rows: nothing, the
\* header alone, the n rows, the header and the n rows, two rows fewer than
\* asked after the header, one row more than asked, a blank line, a row and
\* a blank line, a record that spans two lines, the header twice and a row.
GeneratorTexts(n) ==
    {<<>>, HeaderLine, DataText(n), HeaderLine \o <<NL>> \o DataText(n),
     DataText(n + 1), <<NL>>, DataLine \o <<NL, NL>>, MultiLineRecord,
     HeaderLine \o <<NL>> \o HeaderLine \o <<NL>> \o DataLine}
    \cup (IF n > 2 THEN {HeaderLine \o <<NL>> \o DataText(n - 2)} ELSE {})

\* The replies that leave the counter where it is or move it by n: nothing
\* and the n rows and, when the sample has the header, these after the
\* header.
PlainTexts(n, hdr) ==
    {<<>>, DataText(n)}
    \cup (IF hdr THEN {HeaderLine, HeaderLine \o <<NL>> \o DataText(n)} ELSE {})

OddTexts(n, hdr) == GeneratorTexts(n) \ PlainTexts(n, hdr)

\* What open() and the writes of save_to_csv do.
IoErrors == {"PermissionError", "IOError"}

\* --------------------------------------------------------- the functions

\* Python's truth of an Optional list: not None and not empty.
Truthy(o) == ~IsNone(o) /\ Get(o) /= <<>>

\* read_csv_file as it would be if it gave an empty list when the read fails.
read_csv_file_EmptyOnError(outcome) ==
    IF outcome.kind = "ok" THEN Some(csv_reader(outcome.lines)) ELSE Some(<<>>)

read_csv_file(outcome) ==
    IF outcome.kind = "ok" THEN Some(csv_reader(outcome.lines)) ELSE None

\* int(input(...)), 30 when the input is no number.
ParseRows(inp) == IF IsNone(inp) THEN default_rows ELSE Get(inp)

make_api_call(reply) ==
    IF reply.kind = "text" THEN Some(reply.text) ELSE None

analyzer_agent(data, reply) == make_api_call(reply)

\* GENERATOR_USER_PROMPT as it would be with the analysis and the sample in
\* each other's place.
GENERATOR_USER_PROMPT_Swapped(analysis, sample, num) ==
    [analysis_result |-> sample, sample_data |-> analysis, num_rows |-> num]

\* GENERATOR_USER_PROMPT.format(...): the three values the prompt embeds.
GENERATOR_USER_PROMPT(analysis, sample, num) ==
    [analysis_result |-> analysis, sample_data |-> sample, num_rows |-> num]

generator_agent(analysis, sample, num, reply) == make_api_call(reply)

\* "\n".join([",".join(row) for row in rows])
RowsToStr(rows) ==
    Join(<<NL>>, [j \in 1..Len(rows) |-> Join(<<COMMA>>, rows[j])])

\* save_to_csv as it would be if it opened the file with 'w' every time.
save_to_csv_Truncate(data, file, hdrs, io) ==
    IF data = <<>> THEN file
    ELSE LET head == IF Truthy(hdrs) /\ IsNone(file)
                     THEN <<writerow(Get(hdrs))>> ELSE <<>>
         IN  IF io /= "ok" THEN file
             ELSE Some(head \o WriteRows(csv_reader(splitlines(data))))

\* save_to_csv as it would be without the return of lines 65-67 for empty
\* data.
save_to_csv_NoSkip(data, file, hdrs, io) ==
    LET mode == IF Truthy(hdrs) /\ IsNone(file) THEN "w" ELSE "a"
        old  == IF mode = "w" \/ IsNone(file) THEN <<>> ELSE Get(file)
        head == IF Truthy(hdrs) /\ mode = "w"
                THEN <<writerow(Get(hdrs))>> ELSE <<>>
    IN  IF io /= "ok" THEN file
        ELSE Some(old \o head \o WriteRows(csv_reader(splitlines(data))))

\* The file after save_to_csv(data, output_file, hdrs) when open and the
\* writes do as io says.
save_to_csv(data, file, hdrs, io) ==
    IF data = <<>> THEN file
    ELSE LET mode == IF Truthy(hdrs) /\ IsNone(file) THEN "w" ELSE "a"
             old  == IF mode = "w" \/ IsNone(file) THEN <<>> ELSE Get(file)
             head == IF Truthy(hdrs) /\ mode = "w"
                     THEN <<writerow(Get(hdrs))>> ELSE <<>>
         IN  IF io /= "ok" THEN file
             ELSE Some(old \o head \o WriteRows(csv_reader(splitlines(data))))

\* The header as line 238 and line 257 serialize it.
SerializedHeader(hdrs) == Join(<<COMMA>>, Get(hdrs))

\* StripHeader as it would be if it removed every line equal to the header.
StripHeader_All(hdrs, lines) ==
    IF Truthy(hdrs)
    THEN SelectSeq(lines, LAMBDA l : l /= SerializedHeader(hdrs))
    ELSE lines

\* StripHeader as it would be if no line were removed.
StripHeader_Never(hdrs, lines) == lines

\* Lines 257-258: the first line goes when it is the serialized header.
StripHeader(hdrs, lines) ==
    IF Truthy(hdrs) /\ lines /= <<>> /\ lines[1] = SerializedHeader(hdrs)
    THEN Tail(lines) ELSE lines

\* RowsToGenerate as it would be without the cap of batch_size.
RowsToGenerate_NoCap(desired, generated) == desired - generated

\* RowsToGenerate as it would be if every batch asked for batch_size rows.
RowsToGenerate_NoTail(desired, generated) == batch_size

\* Line 245.
RowsToGenerate(desired, generated) == Min(batch_size, desired - generated)

\* The lines of file, none when it does not exist.
Lines(file) == IF IsNone(file) THEN <<>> ELSE Get(file)

\* The lines new has after those of old.
Added(old, new) == SubSeq(Lines(new), Len(Lines(old)) + 1, Len(Lines(new)))

\* How many of lines are the line hdr.
Count(lines, hdr) == Cardinality({k \in 1..Len(lines) : lines[k] = hdr})

\* ------------------------------------------------------------ the actions

Init ==
    /\ pc = "input"
    /\ output_file \in InitialFiles
    /\ initial_file = output_file
    /\ desired_rows = 0
    /\ sample_data = None
    /\ sample_data_str = <<>>
    /\ analysis_result = None
    /\ headers = None
    /\ generated_rows = 0
    /\ rows_to_generate = 0
    /\ prompt = None
    /\ generated_data = None
    /\ generated_data_lines = <<>>
    /\ analysis_calls = 0
    /\ calls = 0
    /\ exact = TRUE
    /\ faults = 0

\* Lines 207-211: the number of rows wanted.
InputRows ==
    /\ pc = "input"
    /\ \E inp \in RowInputs : desired_rows' = ParseRows(inp)
    /\ pc' = "read"
    /\ UNCHANGED <<output_file, sample_data, sample_data_str, analysis_result,
                   headers, generated_rows, rows_to_generate, prompt,
                   generated_data, generated_data_lines, initial_file,
                   analysis_calls, calls, exact, faults>>

\* Lines 217-222: read the sample; exit(1) when it cannot be read.
ReadSample ==
    /\ pc = "read"
    /\ \E outcome \in ReadOutcomes :
          LET data == read_csv_file(outcome)
          IN  /\ sample_data' = data
              /\ IF IsNone(data)
                 THEN pc' = "exit" /\ UNCHANGED sample_data_str
                 ELSE /\ pc' = "analyze"
                      /\ sample_data_str' = RowsToStr(Get(data))
    /\ UNCHANGED <<output_file, desired_rows, analysis_result, headers,
                   generated_rows, rows_to_generate, prompt, generated_data,
                   generated_data_lines, initial_file, analysis_calls, calls,
                   exact, faults>>

\* Analyze as it would be without the exit(1) of line 228.
Analyze_NoExit ==
    /\ pc = "analyze"
    /\ \E reply \in ErrorReplies \cup TextReplies(AnalyzerTexts) :
          LET result == analyzer_agent(sample_data_str, reply)
          IN  /\ analysis_result' = result
              /\ pc' = "setup"
    /\ analysis_calls' = analysis_calls + 1
    /\ UNCHANGED <<output_file, desired_rows, sample_data, sample_data_str,
                   headers, generated_rows, rows_to_generate, prompt,
                   generated_data, generated_data_lines, initial_file, calls,
                   exact, faults>>

\* Analyze as it would be if a failed analysis call were tried once more.
Analyze_Retry ==
    /\ pc = "analyze"
    /\ \E reply \in ErrorReplies \cup TextReplies(AnalyzerTexts) :
          LET result == analyzer_agent(sample_data_str, reply)
          IN  /\ analysis_result' = result
              /\ pc' = IF ~IsNone(result) THEN "setup"
                       ELSE IF analysis_calls = 0 THEN "analyze" ELSE "exit"
    /\ analysis_calls' = analysis_calls + 1
    /\ UNCHANGED <<output_file, desired_rows, sample_data, sample_data_str,
                   headers, generated_rows, rows_to_generate, prompt,
                   generated_data, generated_data_lines, initial_file, calls,
                   exact, faults>>

\* Lines 225-228: the analysis call; exit(1) when it gives None.
Analyze ==
    /\ pc = "analyze"
    /\ \E reply \in ErrorReplies \cup TextReplies(AnalyzerTexts) :
          LET result == analyzer_agent(sample_data_str, reply)
          IN  /\ analysis_result' = result
              /\ pc' = IF IsNone(result) THEN "exit" ELSE "setup"
    /\ analysis_calls' = analysis_calls + 1
    /\ UNCHANGED <<output_file, desired_rows, sample_data, sample_data_str,
                   headers, generated_rows, rows_to_generate, prompt,
                   generated_data, generated_data_lines, initial_file, calls,
                   exact, faults>>

\* Lines 235-241: the header, the output file when there is none, and the
\* counter.
Setup(io) ==
    /\ pc = "setup"
    /\ LET hdrs == IF Get(sample_data) /= <<>>
                   THEN Some(Get(sample_data)[1]) ELSE None
       IN  /\ headers' = hdrs
           /\ IF IsNone(output_file)
              THEN output_file' =
                      save_to_csv(IF Truthy(hdrs)
                                  THEN SerializedHeader(hdrs) ELSE <<>>,
                                  output_file, hdrs, io)
              ELSE UNCHANGED output_file
    /\ generated_rows' = 0
    /\ pc' = "loop"
    /\ UNCHANGED <<desired_rows, sample_data, sample_data_str, analysis_result,
                   rows_to_generate, prompt, generated_data,
                   generated_data_lines, initial_file, analysis_calls, calls,
                   exact>>

\* LoopTest as it would be if the loop ran for a number of batches worked
\* out from desired_rows and did not look at generated_rows.
LoopTest_FixedBatches ==
    /\ pc = "loop"
    /\ IF calls * batch_size < desired_rows
       THEN LET n == RowsToGenerate(desired_rows, generated_rows)
            IN  /\ rows_to_generate' = n
                /\ prompt' = Some(GENERATOR_USER_PROMPT(Get(analysis_result),
                                                        sample_data_str, n))
                /\ calls' = Min(calls + 1, MaxCalls)
                /\ pc' = "generate"
       ELSE /\ pc' = "done"
            /\ UNCHANGED <<rows_to_generate, prompt, calls>>
    /\ UNCHANGED <<output_file, desired_rows, sample_data, sample_data_str,
                   analysis_result, headers, generated_rows, generated_data,
                   generated_data_lines, initial_file, analysis_calls, exact,
                   faults>>

\* LoopTest as it would be if the loop gave up after two synthesis calls.
LoopTest_RetryCap ==
    /\ pc = "loop"
    /\ IF generated_rows < desired_rows /\ calls < 2
       THEN LET n == RowsToGenerate(desired_rows, generated_rows)
            IN  /\ rows_to_generate' = n
                /\ prompt' = Some(GENERATOR_USER_PROMPT(Get(analysis_result),
                                                        sample_data_str, n))
                /\ calls' = Min(calls + 1, MaxCalls)
                /\ pc' = "generate"
       ELSE /\ pc' = "done"
            /\ UNCHANGED <<rows_to_generate, prompt, calls>>
    /\ UNCHANGED <<output_file, desired_rows, sample_data, sample_data_str,
                   analysis_result, headers, generated_rows, generated_data,
                   generated_data_lines, initial_file, analysis_calls, exact,
                   faults>>

\* LoopTest as it would be if the loop body ran once before the first test.
LoopTest_DoWhile ==
    /\ pc = "loop"
    /\ IF generated_rows < desired_rows \/ calls = 0
       THEN LET n == RowsToGenerate(desired_rows, generated_rows)
            IN  /\ rows_to_generate' = n
                /\ prompt' = Some(GENERATOR_USER_PROMPT(Get(analysis_result),
                                                        sample_data_str, n))
                /\ calls' = Min(calls + 1, MaxCalls)
                /\ pc' = "generate"
       ELSE /\ pc' = "done"
            /\ UNCHANGED <<rows_to_generate, prompt, calls>>
    /\ UNCHANGED <<output_file, desired_rows, sample_data, sample_data_str,
                   analysis_result, headers, generated_rows, generated_data,
                   generated_data_lines, initial_file, analysis_calls, exact,
                   faults>>

\* Lines 244-246: the loop test, the size of the batch and the request.
LoopTest ==
    /\ pc = "loop"
    /\ IF generated_rows < desired_rows
       THEN LET n == RowsToGenerate(desired_rows, generated_rows)
            IN  /\ rows_to_generate' = n
                /\ prompt' = Some(GENERATOR_USER_PROMPT(Get(analysis_result),
                                                        sample_data_str, n))
                /\ calls' = Min(calls + 1, MaxCalls)
                /\ pc' = "generate"
       ELSE /\ pc' = "done"
            /\ UNCHANGED <<rows_to_generate, prompt, calls>>
    /\ UNCHANGED <<output_file, desired_rows, sample_data, sample_data_str,
                   analysis_result, headers, generated_rows, generated_data,
                   generated_data_lines, initial_file, analysis_calls, exact,
                   faults>>

\* The reply is as many data lines as were asked for, and no header.
IsExact(reply, n) == reply.kind = "text" /\ reply.text = DataText(n)

\* Receive as it would be if line 250 were a break.
Receive_Break(reply) ==
    /\ pc = "generate"
    /\ LET data == generator_agent(Get(analysis_result), sample_data_str,
                                   rows_to_generate, reply)
       IN  /\ generated_data' = data
           /\ pc' = IF IsNone(data) THEN "done" ELSE "received"
    /\ exact' = (exact /\ IsExact(reply, rows_to_generate))
    /\ UNCHANGED <<output_file, desired_rows, sample_data, sample_data_str,
                   analysis_result, headers, generated_rows, rows_to_generate,
                   prompt, generated_data_lines, initial_file, analysis_calls,
                   calls>>

\* Lines 246-250: the reply to the request; None sends the loop round again.
Receive(reply) ==
    /\ pc = "generate"
    /\ LET data == generator_agent(Get(analysis_result), sample_data_str,
                                   rows_to_generate, reply)
       IN  /\ generated_data' = data
           /\ pc' = IF IsNone(data) THEN "loop" ELSE "received"
    /\ exact' = (exact /\ IsExact(reply, rows_to_generate))
    /\ UNCHANGED <<output_file, desired_rows, sample_data, sample_data_str,
                   analysis_result, headers, generated_rows, rows_to_generate,
                   prompt, generated_data_lines, initial_file, analysis_calls,
                   calls>>

\* Process as it would be if a batch were cut to the number of rows asked for.
Process_Clamp(io) ==
    /\ pc = "received"
    /\ LET all   == StripHeader(headers, splitlines(Get(generated_data)))
           lines == SubSeq(all, 1, Min(Len(all), rows_to_generate))
           data  == Join(<<NL>>, lines)
       IN  /\ generated_data_lines' = lines
           /\ generated_data' = Some(data)
           /\ output_file' = save_to_csv(data, output_file, None, io)
           /\ generated_rows' = generated_rows + Len(lines)
    /\ pc' = "loop"
    /\ UNCHANGED <<desired_rows, sample_data, sample_data_str, analysis_result,
                   headers, rows_to_generate, prompt, initial_file,
                   analysis_calls, calls, exact>>

\* Lines 256-263: remove the header, save the batch, count its lines.
Process(io) ==
    /\ pc = "received"
    /\ LET lines == StripHeader(headers, splitlines(Get(generated_data)))
           data  == Join(<<NL>>, lines)
       IN  /\ generated_data_lines' = lines
           /\ generated_data' = Some(data)
           /\ output_file' = save_to_csv(data, output_file, None, io)
           /\ generated_rows' = generated_rows + Len(lines)
    /\ pc' = "loop"
    /\ UNCHANGED <<desired_rows, sample_data, sample_data_str, analysis_result,
                   headers, rows_to_generate, prompt, initial_file,
                   analysis_calls, calls, exact>>

\* A step that is one of the MaxFaults irregular steps of the run.
Fault == faults < MaxFaults /\ faults' = faults + 1

Next ==
    \/ InputRows
    \/ ReadSample
    \/ Analyze
    \/ Setup("ok") /\ UNCHANGED faults
    \/ \E io \in IoErrors : IsNone(output_file) /\ Setup(io) /\ Fault
    \/ LoopTest
    \/ \E reply \in ErrorReplies : Receive(reply) /\ UNCHANGED faults
    \/ \E reply \in TextReplies(PlainTexts(rows_to_generate, Truthy(headers))) :
          Receive(reply) /\ UNCHANGED faults
    \/ \E reply \in TextReplies(OddTexts(rows_to_generate, Truthy(headers))) :
          Receive(reply) /\ Fault
    \/ Process("ok") /\ UNCHANGED faults
    \/ \E io \in IoErrors : Process(io) /\ Fault

Spec == Init /\ [][Next]_vars

\* A synthesis call answered with text that is not empty: the header alone,
\* the rows asked for, or both.
ReceiveAnswer ==
    \E reply \in TextReplies(PlainTexts(rows_to_generate, Truthy(headers))
                              \ {<<>>}) :
        Receive(reply) /\ UNCHANGED faults

\* A synthesis call answered with the rows asked for, after the header or
\* not.
ReceiveRows ==
    \E reply \in TextReplies(PlainTexts(rows_to_generate, Truthy(headers))
                              \ {<<>>, HeaderLine}) :
        Receive(reply) /\ UNCHANGED faults

\* The script moves on from a statement that is not a synthesis call.
ProgramStep ==
    /\ pc \in {"input", "read", "analyze", "setup", "loop", "received"}
    /\ pc' \in {"read", "analyze", "setup", "loop", "generate", "done", "exit"}

\* A synthesis call returns.
CallReturns == pc = "generate" /\ pc' \in {"loop", "received"}

\* The run as Python executes it: no statement is left waiting for ever, and
\* every synthesis call returns.  What the calls return is left open.
LiveSpec == Spec /\ WF_pc(ProgramStep) /\ WF_pc(CallReturns)

\* ------------------------------------------------- what the claims use

\* The output file existed when the run began.
Existed == ~IsNone(initial_file)

\* The lines the run has added to the output file.
Written == Added(initial_file, output_file)

\* The header row as the writer writes it.
HeaderRow == writerow(Get(headers))

\* How many of lines are the header row; none when there is no header.
HeaderRows(lines) == IF Truthy(headers) THEN Count(lines, HeaderRow) ELSE 0

IsPrefix(s, t) == Len(s) <= Len(t) /\ SubSeq(t, 1, Len(s)) = s

\* The run has ended: after the loop, or by exit(1).
Terminated == pc \in {"done", "exit"}

\* ------------------------------------------------------------ the claims

\* C1 as stated: under a backend that never fails for good the run ends, and
\* when the loop has ended generated_rows >= desired_rows.
C1_TerminatesWithEnoughRows ==
    /\ ([]<><<ReceiveAnswer>>_vars) => <>Terminated
    /\ [](pc = "done" => generated_rows >= desired_rows)

\* C1 as amended: when the backend again and again answers with rows (not
\* with the header alone), the run ends; and whenever the loop has ended,
\* after a failed batch or not, generated_rows >= desired_rows.
C1_TerminatesWhenRowsKeepComing ==
    /\ ([]<><<ReceiveRows>>_vars) => <>Terminated
    /\ [](pc = "done" => generated_rows >= desired_rows)

\* C1 witness: a loop that has ended with the rows wanted although a reply
\* was not the batch asked for.
C1_Witness ==
    /\ pc = "done"
    /\ desired_rows = 31
    /\ ~exact
    /\ faults = 0
    /\ generated_rows >= desired_rows

\* C2: for a run that starts with no output file and asks for at least one
\* row, when the loop has ended the output file holds at most one line equal
\* to the header and exactly generated_rows other lines.
C2_StoreHoldsGeneratedRows ==
    (pc = "done" /\ ~Existed /\ desired_rows > 0)
        => /\ HeaderRows(Lines(output_file)) <= 1
           /\ Len(Lines(output_file)) - HeaderRows(Lines(output_file))
                  = generated_rows

\* C3: the header row is written to the output file at most once in a run,
\* and the initialization writes nothing when the file existed at the start.
C3_HeaderWrittenAtMostOnce ==
    /\ HeaderRows(Written) <= 1
    /\ (Existed /\ calls = 0) => output_file = initial_file

\* C4: every synthesis request asks for min(batch_size, desired_rows -
\* generated_rows) rows with batch_size = 30: between 1 and 30 rows and no
\* more than are still missing, whatever earlier batches returned.
C4_RequestedRowCount ==
    pc \in {"generate", "received"}
        => LET n == Get(prompt).num_rows
               remaining == desired_rows - generated_rows
           IN  /\ n = (IF remaining < 30 THEN remaining ELSE 30)
               /\ 1 <= n /\ n <= 30
               /\ n <= remaining

\* C4 witness: a request for the 3 rows still missing after a batch of 28.
C4_Witness ==
    /\ pc = "generate"
    /\ desired_rows = 31
    /\ generated_rows = 28
    /\ Get(prompt).num_rows = 3

\* The last call gave None, or its batch was empty text.
CameBackEmpty ==
    /\ calls > 0
    /\ \/ IsNone(generated_data)
       \/ generated_data = Some(<<>>) /\ generated_data_lines = <<>>

\* C5: a synthesis call that gives an error or an empty result changes
\* neither generated_rows nor the output file and does not end the run: the
\* next step of the loop sends the same request again.
C5_EmptyResultRetried ==
    [][/\ (pc = "generate" /\ IsNone(generated_data'))
            => (pc' = "loop" /\ generated_rows' = generated_rows
                /\ output_file' = output_file)
       /\ (pc = "received" /\ generated_data = Some(<<>>))
            => (pc' = "loop" /\ generated_rows' = generated_rows
                /\ output_file' = output_file)
       /\ (pc = "loop" /\ CameBackEmpty)
            => (pc' = "generate" /\ prompt' = prompt)]_vars

\* C5 witness: the second batch of a run asked for again after a failed call.
C5_Witness ==
    /\ pc = "generate"
    /\ generated_rows = 30
    /\ IsNone(generated_data)
    /\ calls = 3

\* C6: when the analysis call fails the run has ended by exit(1), no
\* synthesis call was made and the output file is as it was at the start
\* (not created when it did not exist).
C6_AnalysisFailureIsFatal ==
    (analysis_calls = 1 /\ IsNone(analysis_result))
        => /\ pc = "exit"
           /\ calls = 0
           /\ IsNone(prompt)
           /\ output_file = initial_file

\* C6 witness: a run ended by the failed analysis, with no output file.
C6_Witness ==
    /\ pc = "exit"
    /\ analysis_calls = 1
    /\ IsNone(analysis_result)
    /\ IsNone(output_file)

C8_ExistingStoreOnlyAppended ==
    [][Existed
         => /\ ~IsNone(output_file')
            /\ IsPrefix(Get(output_file), Get(output_file'))
            /\ pc = "setup" => output_file' = output_file]_vars

\* C8 witness: a batch appended to the file an earlier run left.
C8_Witness ==
    /\ Existed
    /\ pc = "done"
    /\ Len(Lines(output_file)) > Len(Lines(initial_file))

\* C9: when every synthesis call returns exactly the rows asked for, the
\* loop ends after ceil(desired_rows / 30) calls with generated_rows =
\* desired_rows; for desired_rows = 5 the one call asks for 5 rows.
C9_ExactRepliesCallCount ==
    /\ (pc = "done" /\ exact /\ desired_rows > 0)
          => /\ calls = (desired_rows + 29) \div 30
             /\ calls < MaxCalls
             /\ generated_rows = desired_rows
    /\ (pc = "done" /\ exact /\ desired_rows = 5) => rows_to_generate = 5

\* C9 witness: 31 rows made by two calls.
C9_Witness ==
    /\ pc = "done"
    /\ exact
    /\ desired_rows = 31
    /\ calls = 2

\* C10: generated_rows never decreases and changes only when a batch is
\* saved, by the number of lines other than the header that the step has
\* appended to the output file.
C10_CounterMatchesAppended ==
    [][/\ generated_rows' >= generated_rows
       /\ generated_rows' /= generated_rows
            => /\ pc = "received"
               /\ generated_rows' - generated_rows
                     = Len(Added(output_file, output_file'))
                       - HeaderRows(Added(output_file, output_file'))]_vars

C12_OvershootOnlyInLastBatch ==
    /\ [](pc \in {"generate", "received"} => generated_rows < desired_rows)
    /\ [][pc = "received"
            => LET kept == StripHeader(headers, splitlines(Get(generated_data)))
               IN  Len(kept) > rows_to_generate
                      => /\ generated_rows' = generated_rows + Len(kept)
                         /\ (\A k \in 1..Len(kept) : kept[k] = DataLine)
                               => \/ output_file' = output_file
                                  \/ Added(output_file, output_file') = kept
         ]_vars
    /\ [][(pc \in {"loop", "done"} /\ generated_rows >= desired_rows)
            => /\ pc' = "done"
               /\ output_file' = output_file
               /\ prompt' = prompt
               /\ calls' = calls]_vars
    /\ []((desired_rows > 0 /\ generated_rows > desired_rows)
            => /\ pc \in {"loop", "done"}
               /\ Len(generated_data_lines) > rows_to_generate
               /\ generated_rows - Len(generated_data_lines) < desired_rows)

\* C12 witness: 5 rows wanted, one batch of 6 rows returned and all 6 in the
\* output file.
C12_Witness ==
    /\ pc = "done"
    /\ desired_rows = 5
    /\ generated_rows = 6
    /\ Count(Written, DataLine) = 6

\* A synthesis call or a write of the output file has happened.
SynthesisBegun == calls > 0 \/ ~IsNone(prompt) \/ output_file /= initial_file

\* What a synthesis request holds is the run's analysis result and sample
\* text.
PromptHoldsAnalysisAndSample ==
    ~IsNone(prompt)
        => /\ Get(prompt).analysis_result = Get(analysis_result)
           /\ Get(prompt).sample_data = sample_data_str

\* C13 as stated: every run makes the analysis call exactly once, before
\* the first synthesis call and before any write of the output file, and
\* every synthesis call is given that analysis result and the sample text.
C13_AnalysisOnceInEveryRun ==
    /\ Terminated => analysis_calls = 1
    /\ SynthesisBegun => (analysis_calls = 1 /\ ~IsNone(analysis_result))
    /\ PromptHoldsAnalysisAndSample

\* C13 as amended: a run that has read its sample makes the analysis call
\* exactly once (a run that could not read it makes none), the call comes
\* before the first synthesis call and before any write of the output file,
\* and the analysis result and the sample text stay as they are from then on
\* and are what every synthesis call is given.
C13_AnalysisOnceBeforeSynthesis ==
    /\ []((Terminated /\ ~IsNone(sample_data)) => analysis_calls = 1)
    /\ []((Terminated /\ IsNone(sample_data)) => analysis_calls = 0)
    /\ [](analysis_calls <= 1)
    /\ [](SynthesisBegun => (analysis_calls = 1 /\ ~IsNone(analysis_result)))
    /\ [][analysis_calls' /= analysis_calls
            => (pc = "analyze" /\ ~SynthesisBegun)]_vars
    /\ [][analysis_calls = 1
            => /\ analysis_result' = analysis_result
               /\ sample_data_str' = sample_data_str]_vars
    /\ []PromptHoldsAnalysisAndSample
    /\ [][(~IsNone(prompt) /\ pc' = "generate")
            => /\ Get(prompt').analysis_result = Get(prompt).analysis_result
               /\ Get(prompt').sample_data = Get(prompt).sample_data]_vars

\* C13 witness: the second synthesis call of a run, given the analysis
\* result of the one analysis call, after the first batch was written.
C13_Witness ==
    /\ pc = "generate"
    /\ calls = 2
    /\ analysis_calls = 1
    /\ generated_rows = 30
    /\ Get(prompt).analysis_result = <<"o", "k">>
    /\ Get(prompt).sample_data = HeaderLine \o <<NL>> \o DataLine
    /\ output_file /= initial_file

\* The ways reading the sample file fails.
ReadFailures == {o \in ReadOutcomes : o.kind /= "ok"}

\* C14: when the sample file is not found, not readable or malformed, the
\* read step ends the run by exit(1): no analysis call, no synthesis call,
\* the output file neither created nor written, and nothing happens after
\* the exit.  When a write of the output file fails, at the initialization
\* or for a batch, the file stays as it was and the run goes on to the loop.
C14_ReadFailureFatalWriteFailureSkipped ==
    /\ [][pc = "read"
            => \A o \in ReadFailures :
                  sample_data' = read_csv_file(o)
                     => /\ pc' = "exit"
                        /\ analysis_calls' = 0
                        /\ calls' = 0
                        /\ output_file' = initial_file]_vars
    /\ []((pc \notin {"input", "read"} /\ IsNone(sample_data))
            => /\ pc = "exit"
               /\ analysis_calls = 0
               /\ IsNone(analysis_result)
               /\ calls = 0
               /\ IsNone(prompt)
               /\ output_file = initial_file)
    /\ [][pc = "exit" => FALSE]_vars
    /\ [][\A io \in IoErrors :
             (Setup(io) \/ Process(io))
                => (output_file' = output_file /\ pc' = "loop")]_vars

\* C14 witness: a run ended by the failed read, 31 rows wanted, no output
\* file made.
C14_Witness ==
    /\ pc = "exit"
    /\ IsNone(sample_data)
    /\ desired_rows = 31
    /\ analysis_calls = 0
    /\ IsNone(output_file)

\* The run with a backend that fails on every synthesis call: the client
\* raises, or its message holds no content.
FailNext ==
    \/ InputRows
    \/ ReadSample
    \/ Analyze
    \/ Setup("ok") /\ UNCHANGED faults
    \/ \E io \in IoErrors : IsNone(output_file) /\ Setup(io) /\ Fault
    \/ LoopTest
    \/ \E reply \in ErrorReplies : Receive(reply) /\ UNCHANGED faults

FailSpec ==
    Init /\ [][FailNext]_vars /\ WF_pc(ProgramStep) /\ WF_pc(CallReturns)

\* Every line the run has added to the output file is the header row.
OnlyHeaderWritten ==
    \A k \in 1..Len(Written) : Truthy(headers) /\ Written[k] = HeaderRow

\* C15: with a backend that fails on every synthesis call and desired_rows
\* > 0 the loop never ends: generated_rows stays 0, no data row is written,
\* every call after the first asks again for what the call before asked, and
\* after every failed call another call is made, however many were made.
C15_FailingBackendLoopsForEver ==
    /\ [](pc = "done" => desired_rows <= 0)
    /\ [](generated_rows = 0)
    /\ []OnlyHeaderWritten
    /\ [][(pc = "loop" /\ calls > 0)
            => /\ pc' = "generate"
               /\ rows_to_generate' = rows_to_generate
               /\ prompt' = prompt]_vars
    /\ [](pc = "generate" => IsNone(generated_data))
    /\ [](pc = "generate" => <>(pc = "loop"))
    /\ []((pc = "loop" /\ desired_rows > 0) => <>(pc = "generate"))

\* C15 witness: one more call out after MaxCalls - 1 failed calls, 31 rows
\* wanted and none generated.
C15_Witness ==
    /\ pc = "generate"
    /\ desired_rows = 31
    /\ calls = MaxCalls
    /\ rows_to_generate = 30
    /\ generated_rows = 0
    /\ IsNone(generated_data)

\* The texts of which nothing is left when the header is stripped: no text,
\* and the header line of the sample when it has one.
EmptyBatches(hdrs) ==
    {<<>>} \cup (IF Truthy(hdrs) THEN {SerializedHeader(hdrs)} ELSE {})

\* The run with a backend whose every synthesis call succeeds and returns
\* one of these texts.
EchoNext ==
    \/ InputRows
    \/ ReadSample
    \/ Analyze
    \/ Setup("ok") /\ UNCHANGED faults
    \/ \E io \in IoErrors : IsNone(output_file) /\ Setup(io) /\ Fault
    \/ LoopTest
    \/ \E reply \in TextReplies(EmptyBatches(headers)) :
          Receive(reply) /\ UNCHANGED faults
    \/ Process("ok") /\ UNCHANGED faults

EchoSpec ==
    Init /\ [][EchoNext]_vars /\ WF_pc(ProgramStep) /\ WF_pc(CallReturns)

\* C16: a synthesis call that succeeds with the header line alone or with
\* empty text leaves no line to save: the output file and generated_rows
\* stay as they are and the next request is the same as the last.  With a
\* backend that only gives such answers and desired_rows > 0 no call fails,
\* yet the loop never ends: every answer is followed by another request.
C16_HeaderOnlyAnswersLoopForEver ==
    /\ [][pc = "received"
            => /\ generated_data_lines' = <<>>
               /\ output_file' = output_file
               /\ generated_rows' = generated_rows
               /\ pc' = "loop"]_vars
    /\ [][(pc = "loop" /\ calls > 0)
            => (pc' = "generate" /\ prompt' = prompt)]_vars
    /\ []((calls > 0 /\ pc \in {"loop", "received"}) => ~IsNone(generated_data))
    /\ [](generated_rows = 0)
    /\ [](pc = "done" => desired_rows <= 0)
    /\ [](pc = "generate" => <>(pc = "received"))
    /\ [](pc = "received" => <>(pc = "generate"))

\* C16 witness: the answer to one more request is again the header alone,
\* 5 rows wanted and none generated.
C16_Witness ==
    /\ pc = "received"
    /\ calls = MaxCalls
    /\ desired_rows = 5
    /\ generated_data = Some(HeaderLine)
    /\ generated_rows = 0
    /\ Count(Written, DataLine) = 0

\* C17: a desired_rows that is zero or negative is taken as it is.  The run
\* then still makes the analysis call and sets up the output file (creating
\* it with the header when there was none, the sample has a header and the
\* write does not fail), makes no synthesis call at all and ends with
\* generated_rows = 0.
C17_NonPositiveRowsEndsWithoutSynthesis ==
    /\ [][pc /= "input" => desired_rows' = desired_rows]_vars
    /\ [](desired_rows <= 0
            => (pc \notin {"generate", "received"} /\ calls = 0 /\ IsNone(prompt)))
    /\ []((pc = "done" /\ desired_rows <= 0)
            => /\ analysis_calls = 1
               /\ ~IsNone(analysis_result)
               /\ generated_rows = 0
               /\ Existed => output_file = initial_file
               /\ (~Existed /\ Truthy(headers) /\ faults = 0)
                     => (~IsNone(output_file) /\ HeaderRows(Written) >= 1)
               /\ OnlyHeaderWritten)
    /\ []((pc = "setup" /\ desired_rows <= 0) => <>(pc = "done"))
    /\ []((pc = "read" /\ desired_rows <= 0) => <>Terminated)

\* C17 witness: a run for -1 rows that has ended after the analysis call
\* and the creation of the output file, without a synthesis call.
C17_Witness ==
    /\ pc = "done"
    /\ desired_rows = -1
    /\ analysis_calls = 1
    /\ calls = 0
    /\ generated_rows = 0
    /\ ~Existed
    /\ ~IsNone(output_file)

\* C18: when the sample gives no header (it is empty, or its first row is),
\* the initialization leaves the output file as it is and does not create
\* it; every batch keeps all its lines; and an output file that did not
\* exist is created by the save of a batch that is not empty and holds no
\* line but that batch's: no more lines than the batch has, and exactly the
\* batch's lines when they are rows of the sample's form.
C18_NoHeaderNoInitialization ==
    /\ [][(pc = "setup" /\ ~Truthy(headers'))
            => output_file' = output_file]_vars
    /\ []((pc \in {"loop", "generate", "received", "done"}
           /\ ~Truthy(headers) /\ calls = 0)
            => output_file = initial_file)
    /\ [][(pc = "received" /\ ~Truthy(headers))
            => /\ generated_data_lines' = splitlines(Get(generated_data))
               /\ generated_rows' = generated_rows + Len(generated_data_lines')
         ]_vars
    /\ [][(~Truthy(headers') /\ IsNone(output_file) /\ ~IsNone(output_file'))
            => /\ pc = "received"
               /\ generated_data' /= Some(<<>>)
               /\ Len(Get(output_file')) <= Len(generated_data_lines')
               /\ (\A k \in 1..Len(generated_data_lines') :
                      generated_data_lines'[k] = DataLine)
                     => Get(output_file') = generated_data_lines'
         ]_vars

\* C18 witness: a sample whose first row is empty, no output file at the
\* start, 5 rows wanted: at the end the file is the 5 rows of the one batch.
C18_Witness ==
    /\ pc = "done"
    /\ sample_data = Some(<< <<>>, <<"1", "a">> >>)
    /\ headers = Some(<<>>)
    /\ ~Existed
    /\ desired_rows = 5
    /\ output_file = Some([j \in 1..5 |-> DataLine])

====
